---- MODULE Spec2Model ----
(***************************************************************************)
(* fb0rfb.c : a single-client RFB 3.8 server that streams /dev/fb0 as RAW  *)
(* full-frame updates.  The model follows main() statement by statement:   *)
(* the accept loop, the seven handshake steps, the client message loop and *)
(* the frame pump, over a byte-level socket (bytes in flight from the      *)
(* client, the writes the server has completed).                           *)
(***************************************************************************)
EXTENDS Integers, Sequences, FiniteSets, TLC

\* ---- bounds of the exploration ----
MaxSessions == 2   \* connections accepted in one run
MaxMsgs     == 2   \* chunks a client sends after its ClientInit
MaxFrames   == 2   \* FramebufferUpdates started in one session

\* ---- the framebuffer geometries and --fps values explored ----
\* <<xres, yres, line_length, --fps>>, line_length >= xres*4 (fb driver contract)
Setups     == { <<1, 1, 4, 3>>, <<2, 2, 12, 40>> }
Geometries == { <<1, 1, 4>>, <<2, 1, 8>>, <<1, 2, 8>>, <<2, 2, 12>> }
FpsArgs    == { -7, 0, 1, 3, 14, 15, 16, 40, 1001 }

\* ---- program constants ----
MaxFps      == 15
NotReadyMs  == 50
CutChunk    == 256
BytesPerPix == 4

VARIABLES
  \* main(): setup results
  width, height, stride, reqfps, fps,
  \* main(): control and locals
  pc, conn, copen, nclose, linebuf, nfree, client_ready,
  msgtype, count, i, len, y, cause,
  \* the socket c and the client behind it
  inq, peer, cphase, csent, out,
  \* history of the current session
  ioerr, msgsDone, tickStart, atPoll, frames, frameOk, lastSleep

geomv == <<width, height, stride, reqfps, fps>>
envv  == <<peer, cphase, csent>>
cliv  == <<cphase, csent>>
locv  == <<msgtype, count, i, len, y>>
resv  == <<linebuf, nfree>>
histv == <<msgsDone, tickStart, atPoll, frames, frameOk, lastSleep>>
vars  == <<width, height, stride, reqfps, fps,
           pc, conn, copen, nclose, linebuf, nfree, client_ready,
           msgtype, count, i, len, y, cause,
           inq, peer, cphase, csent, out,
           ioerr, msgsDone, tickStart, atPoll, frames, frameOk, lastSleep>>

\* ---------------------------------------------------------------------
\* byte-level helpers
\* ---------------------------------------------------------------------
U16(x) == x % 65536

\* htons()/htonl() followed by a write of the object: big-endian bytes
htons(v) == << (U16(v) \div 256) % 256, U16(v) % 256 >>
\* (32-bit values stay below 2^31 in every explored state)
htonl(v) == << (v \div 16777216) % 256, (v \div 65536) % 256,
               (v \div 256) % 256, v % 256 >>
\* ntohs()/ntohl() of an object filled from the wire
ntohs(b) == b[1] * 256 + b[2]
ntohl(b) == b[1] * 16777216 + b[2] * 65536 + b[3] * 256 + b[4]

Zeros(n) == [k \in 1..n |-> 0]
Take(s, n) == SubSeq(s, 1, n)
Drop(s, n) == SubSeq(s, n + 1, Len(s))

\* the byte of the mapped framebuffer at offset o
fbmem(o) == (o * 5 + 17) % 256

\* one completed write: literal bytes, or a run copied out of fbmem
Lit(bytes)   == [kind |-> "lit", off |-> 0, len |-> Len(bytes), data |-> bytes]
Fb(off, n)   == [kind |-> "fb", off |-> off, len |-> n, data |-> << >>]
Prefix(seg, k) == IF seg.kind = "lit" THEN Lit(Take(seg.data, k))
                  ELSE Fb(seg.off, k)
SegBytes(seg) == IF seg.kind = "lit" THEN seg.data
                 ELSE [k \in 1..seg.len |-> fbmem(seg.off + k - 1)]

RECURSIVE Flatten(_)
Flatten(segs) == IF segs = << >> THEN << >>
                 ELSE SegBytes(Head(segs)) \o Flatten(Tail(segs))

\* ---------------------------------------------------------------------
\* wire constants
\* ---------------------------------------------------------------------
ver       == << 82, 70, 66, 32, 48, 48, 51, 46, 48, 48, 56, 10 >>
sec_types == << 1, 1 >>
name      == << 79, 112, 101, 110, 67, 101, 110, 116, 97, 117, 114, 105,
                32, 102, 98, 48, 32, 40, 82, 65, 87, 41 >>
\* (variant: the three max fields stored without htons)
pf_hostorder == << 32, 24, 0, 1, 255, 0, 255, 0, 255, 0, 16, 8, 0 >> \o Zeros(3)

pf        == << 32, 24, 0, 1 >> \o htons(255) \o htons(255) \o htons(255)
             \o << 16, 8, 0 >> \o Zeros(3)
fbup      == << 0, 0 >> \o htons(1)

\* ---------------------------------------------------------------------
\* startup
\* ---------------------------------------------------------------------
\* (variant: the upper cap left out)
ClampFps_noCap(req) == IF req < 1 THEN 1 ELSE req

ClampFps(req) == LET a == IF req < 1 THEN 1 ELSE req
                 IN  IF a > MaxFps THEN MaxFps ELSE a

msleep(ms) == (ms \div 1000) * 1000 + ((ms % 1000) * 1000) \div 1000

\* the record of the current iteration's poll (input pending, messages
\* completed so far, polls made); empty once the iteration has moved on to
\* the frame or the sleep
NoPoll == [inq |-> << >>, done |-> 0, polls |-> 0]

\* the state when main() reaches the accept loop
Started(g, f) ==
  /\ width = g[1] /\ height = g[2] /\ stride = g[3]
  /\ reqfps = f
  /\ fps = ClampFps(f)
  /\ pc = "accept" /\ conn = 0 /\ copen = FALSE /\ nclose = 0
  /\ linebuf = "none" /\ nfree = 0 /\ client_ready = FALSE
  /\ msgtype = 0 /\ count = 0 /\ i = 0 /\ len = 0 /\ y = 0 /\ cause = "none"
  /\ inq = << >> /\ peer = "none" /\ cphase = "none" /\ csent = 0 /\ out = << >>
  /\ ioerr = "none" /\ msgsDone = << >> /\ tickStart = 0 /\ atPoll = NoPoll /\ frames = 0
  /\ frameOk = FALSE /\ lastSleep = <<"none", 0>>

Init == \E s \in Setups : Started(s, s[4])

InitPump == \E g \in Geometries, f \in FpsArgs : Started(g, f)

\* ---------------------------------------------------------------------
\* the socket
\* ---------------------------------------------------------------------
IoResults == { "ok", "fail", "kill" }

\* bytes a failing write_all has already pushed out when it returns -1
PartialLens(seg) == { seg.len \div 2 }

\* write_all(c, seg, seg.len): every byte written ("ok"), -1 after part of
\* them ("fail"), or SIGPIPE with its default disposition ("kill").
\* A peer that has closed still takes a write and answers it with a reset
\* (peer "gone", pending input dropped); the write after that raises SIGPIPE,
\* or fails with EPIPE where the signal is ignored.
write_all(seg, res) ==
  \/ /\ res = "ok" /\ peer # "gone"
     /\ out' = Append(out, seg)
     /\ \/ UNCHANGED <<peer, inq>>
        \/ peer = "closed" /\ peer' = "gone" /\ inq' = << >>
     /\ UNCHANGED <<ioerr, cause>>
  \/ /\ res = "fail"
     /\ \E k \in PartialLens(seg) :
          out' = IF k = 0 THEN out ELSE Append(out, Prefix(seg, k))
     /\ ioerr' = "write"
     /\ UNCHANGED <<cause, peer, inq>>
  \/ /\ res = "kill" /\ peer = "gone"
     /\ cause' = "sigpipe"
     /\ UNCHANGED <<out, ioerr, peer, inq>>

\* read_all(c, buf, n): blocks until n bytes arrived ("ok"); -1 on
\* end-of-stream or error ("fail")
read_all(n, res) ==
  \/ /\ res = "ok" /\ Len(inq) >= n
     /\ inq' = Drop(inq, n)
     /\ UNCHANGED ioerr
  \/ /\ res = "fail" /\ Len(inq) < n /\ peer # "open"
     /\ inq' = << >>
     /\ ioerr' = "read"

\* (variant: a failed step goes back to accept without close(c))
HsGoto_noClose(res, okpc) ==
  \/ /\ res = "ok" /\ pc' = okpc /\ UNCHANGED <<copen, nclose>>
  \/ /\ res = "fail" /\ pc' = "accept" /\ UNCHANGED <<copen, nclose>>
  \/ /\ res = "kill" /\ pc' = "dead" /\ UNCHANGED <<copen, nclose>>

\* (variant: the result of a handshake step is not tested)
HsGoto_ignoresFailure(res, okpc) ==
  \/ /\ res \in {"ok", "fail"} /\ pc' = okpc /\ UNCHANGED <<copen, nclose>>
  \/ /\ res = "kill" /\ pc' = "dead" /\ UNCHANGED <<copen, nclose>>

\* where control goes after an I/O call made during the handshake:
\* { close(c); continue; } on failure
HsGoto(res, okpc) ==
  \/ /\ res = "ok" /\ pc' = okpc /\ UNCHANGED <<copen, nclose>>
  \/ /\ res = "fail" /\ pc' = "accept" /\ copen' = FALSE /\ nclose' = nclose + 1
  \/ /\ res = "kill" /\ pc' = "dead" /\ UNCHANGED <<copen, nclose>>

\* where control goes after an I/O call made in the session loop:
\* break on failure
LoopGoto(res, okpc) ==
  \/ /\ res = "ok" /\ pc' = okpc
  \/ /\ res = "fail" /\ pc' = "cleanup"
  \/ /\ res = "kill" /\ pc' = "dead"

\* ---------------------------------------------------------------------
\* accept loop and handshake
\* ---------------------------------------------------------------------
Accept ==
  /\ pc = "accept" /\ conn < MaxSessions
  /\ conn' = conn + 1 /\ copen' = TRUE /\ nclose' = 0
  /\ linebuf' = "none" /\ nfree' = 0
  /\ inq' = << >> /\ peer' = "open" /\ cphase' = "ver" /\ csent' = 0
  /\ out' = << >>
  /\ ioerr' = "none" /\ msgsDone' = << >> /\ tickStart' = 0 /\ atPoll' = NoPoll /\ frames' = 0
  /\ frameOk' = FALSE
  /\ msgtype' = 0 /\ count' = 0 /\ i' = 0 /\ len' = 0 /\ y' = 0
  /\ pc' = "ver_send"
  /\ UNCHANGED <<geomv, client_ready, cause, lastSleep>>

AcceptDie ==
  /\ pc = "accept" /\ conn < MaxSessions
  /\ pc' = "dead" /\ cause' = "accept"
  /\ UNCHANGED <<geomv, conn, copen, nclose, resv, client_ready, locv,
                 inq, envv, out, ioerr, histv>>

HsWrite(at, bytes, okpc) ==
  /\ pc = at
  /\ \E res \in IoResults : write_all(Lit(bytes), res) /\ HsGoto(res, okpc)
  /\ UNCHANGED <<geomv, conn, resv, client_ready, locv, cliv, histv>>

HsRead(at, n, okpc) ==
  /\ pc = at
  /\ \E res \in {"ok", "fail"} : read_all(n, res) /\ HsGoto(res, okpc)
  /\ UNCHANGED <<geomv, conn, resv, client_ready, locv, cause, envv, out, histv>>

VersionSend   == HsWrite("ver_send", ver, "ver_recv")
VersionRecv   == HsRead("ver_recv", 12, "sec_offer")
SecurityOffer == HsWrite("sec_offer", sec_types, "sec_choice")

\* (variant: the chosen type is not compared with 1)
SecurityChoice_any ==
  /\ pc = "sec_choice"
  /\ \/ read_all(1, "ok") /\ HsGoto("ok", "sec_result")
     \/ read_all(1, "fail") /\ HsGoto("fail", "sec_result")
  /\ UNCHANGED <<geomv, conn, resv, client_ready, locv, cause, envv, out, histv>>

SecurityChoice ==
  /\ pc = "sec_choice"
  /\ \/ /\ Len(inq) >= 1 /\ Head(inq) = 1
        /\ read_all(1, "ok") /\ HsGoto("ok", "sec_result")
     \/ /\ Len(inq) >= 1 /\ Head(inq) # 1
        /\ read_all(1, "ok") /\ HsGoto("fail", "sec_result")
     \/ /\ read_all(1, "fail") /\ HsGoto("fail", "sec_result")
  /\ UNCHANGED <<geomv, conn, resv, client_ready, locv, cause, envv, out, histv>>

SecurityResult == HsWrite("sec_result", htonl(0), "client_init")
ClientInit     == HsRead("client_init", 1, "si_w")

ServerInitW    == HsWrite("si_w", htons(width), "si_h")
ServerInitH    == HsWrite("si_h", htons(height), "si_pf")
ServerInitPf   == HsWrite("si_pf", pf, "si_namelen")
ServerInitLen  == HsWrite("si_namelen", htonl(Len(name)), "si_name")
ServerInitName == HsWrite("si_name", name, "malloc")

\* malloc of the scanline buffer, then client_ready = 0
\* (variant: client_ready is not reset for the new session)
AllocLinebuf_keepsReady ==
  /\ pc = "malloc"
  /\ \/ /\ linebuf' = "alloc" /\ pc' = "select"
        /\ UNCHANGED <<copen, nclose, ioerr, client_ready>>
     \/ /\ pc' = "accept" /\ copen' = FALSE /\ nclose' = nclose + 1
        /\ ioerr' = "alloc"
        /\ UNCHANGED <<linebuf, client_ready>>
  /\ UNCHANGED <<geomv, conn, nfree, locv, cause, inq, envv, out, histv>>

AllocLinebuf ==
  /\ pc = "malloc"
  /\ \/ /\ linebuf' = "alloc" /\ client_ready' = FALSE /\ pc' = "select"
        /\ UNCHANGED <<copen, nclose, ioerr>>
     \/ /\ pc' = "accept" /\ copen' = FALSE /\ nclose' = nclose + 1
        /\ ioerr' = "alloc"
        /\ UNCHANGED <<linebuf, client_ready>>
  /\ UNCHANGED <<geomv, conn, nfree, locv, cause, inq, envv, out, histv>>

\* ---------------------------------------------------------------------
\* client message loop
\* ---------------------------------------------------------------------
\* select(c + 1, &rfds, NULL, NULL, {0,0}) and the test of its result
Select ==
  /\ pc = "select"
  /\ tickStart' = Len(out)
  /\ atPoll' = [inq |-> inq, done |-> Len(msgsDone), polls |-> atPoll.polls + 1]
  /\ \/ /\ (inq # << >> \/ peer # "open")        \* r > 0, c readable
        /\ pc' = "read_type" /\ UNCHANGED ioerr
     \/ /\ inq = << >> /\ peer = "open"            \* r == 0
        /\ pc' = "check_ready" /\ UNCHANGED ioerr
     \/ /\ pc' = "check_ready" /\ UNCHANGED ioerr  \* r < 0, EINTR
     \/ /\ pc' = "cleanup" /\ ioerr' = "select"    \* r < 0, other errno
  /\ UNCHANGED <<geomv, conn, copen, nclose, resv, client_ready, locv, cause,
                 inq, envv, out, msgsDone, frames, frameOk, lastSleep>>

KnownTypes == {0, 2, 3, 4, 5, 6}
\* (variant: an unknown type is skipped instead of ending the session)
FirstPc_skipUnknown(t) ==
  CASE t = 0 -> "m0_rest" [] t = 2 -> "m2_pad" [] t = 3 -> "m3_inc"
    [] t = 4 -> "m4_rest" [] t = 5 -> "m5_rest" [] t = 6 -> "m6_pad3"
    [] OTHER -> "check_ready"

FirstPc(t) == CASE t = 0 -> "m0_rest" [] t = 2 -> "m2_pad" [] t = 3 -> "m3_inc"
                [] t = 4 -> "m4_rest" [] t = 5 -> "m5_rest" [] t = 6 -> "m6_pad3"
                [] OTHER -> "cleanup"

\* read(c, &msgtype, 1) and the dispatch on msgtype
ReadType ==
  /\ pc = "read_type"
  /\ \/ /\ inq # << >>
        /\ msgtype' = Head(inq) /\ inq' = Tail(inq)
        /\ pc' = FirstPc(Head(inq))
        /\ ioerr' = IF Head(inq) \in KnownTypes THEN ioerr ELSE "proto"
     \/ /\ inq = << >> /\ peer # "open"
        /\ pc' = "cleanup" /\ ioerr' = "eof"
        /\ UNCHANGED <<msgtype, inq>>
  /\ UNCHANGED <<geomv, conn, copen, nclose, resv, client_ready, count, i, len,
                 y, cause, envv, out, histv>>

\* a payload read whose failure leaves the loop
LoopRead(at, n, okpc, done) ==
  /\ pc = at
  /\ \E res \in {"ok", "fail"} :
       /\ read_all(n, res) /\ LoopGoto(res, okpc)
       /\ msgsDone' = IF done /\ res = "ok" THEN Append(msgsDone, msgtype)
                      ELSE msgsDone
  /\ UNCHANGED <<geomv, conn, copen, nclose, resv, locv, cause, envv, out,
                 tickStart, atPoll, frames, frameOk, lastSleep>>

\* (variant: a format change restarts the wait for an update request)
SetPixelFormat_resets ==
  LoopRead("m0_rest", 19, "check_ready", TRUE) /\ client_ready' = FALSE

SetPixelFormat == LoopRead("m0_rest", 19, "check_ready", TRUE) /\ UNCHANGED client_ready

\* (variant: a key press counts as an update request)
KeyEvent_ready == LoopRead("m4_rest", 7, "check_ready", TRUE) /\ client_ready' = TRUE

KeyEvent       == LoopRead("m4_rest", 7, "check_ready", TRUE) /\ UNCHANGED client_ready

\* (variant: after a pointer event the next pending message is read at once)
PointerEvent_drain == LoopRead("m5_rest", 5, "read_type", TRUE) /\ UNCHANGED client_ready

PointerEvent   == LoopRead("m5_rest", 5, "check_ready", TRUE) /\ UNCHANGED client_ready

SetEncodingsPad == LoopRead("m2_pad", 1, "m2_count", FALSE) /\ UNCHANGED client_ready

SetEncodingsCount ==
  /\ pc = "m2_count"
  /\ \/ /\ read_all(2, "ok")
        /\ count' = ntohs(Take(inq, 2)) /\ i' = 0
        /\ pc' = IF ntohs(Take(inq, 2)) > 0 THEN "m2_enc" ELSE "check_ready"
        /\ msgsDone' = IF ntohs(Take(inq, 2)) > 0 THEN msgsDone
                       ELSE Append(msgsDone, msgtype)
     \/ /\ read_all(2, "fail") /\ pc' = "cleanup"
        /\ UNCHANGED <<count, i, msgsDone>>
  /\ UNCHANGED <<geomv, conn, copen, nclose, resv, client_ready, msgtype, len, y,
                 cause, envv, out, tickStart, atPoll, frames, frameOk, lastSleep>>

\* for (i = 0; i < count; i++) if (read_all(c, &enc, 4)) { count = 0; break; }
SetEncodingsEnc ==
  /\ pc = "m2_enc" /\ i < count
  /\ \/ /\ read_all(4, "ok")
        /\ i' = U16(i + 1)
        /\ pc' = IF U16(i + 1) < count THEN "m2_enc" ELSE "check_ready"
        /\ msgsDone' = IF U16(i + 1) < count THEN msgsDone
                       ELSE Append(msgsDone, msgtype)
        /\ UNCHANGED count
     \/ /\ read_all(4, "fail")
        /\ count' = 0 /\ pc' = "check_ready"
        /\ UNCHANGED <<i, msgsDone>>
  /\ UNCHANGED <<geomv, conn, copen, nclose, resv, client_ready, msgtype, len, y,
                 cause, envv, out, tickStart, atPoll, frames, frameOk, lastSleep>>

UpdateRequestInc == LoopRead("m3_inc", 1, "m3_rx", FALSE) /\ UNCHANGED client_ready
UpdateRequestX   == LoopRead("m3_rx", 2, "m3_ry", FALSE) /\ UNCHANGED client_ready
UpdateRequestY   == LoopRead("m3_ry", 2, "m3_rw", FALSE) /\ UNCHANGED client_ready
UpdateRequestW   == LoopRead("m3_rw", 2, "m3_rh", FALSE) /\ UNCHANGED client_ready

\* the last field of the request, then client_ready = 1
UpdateRequestH ==
  /\ pc = "m3_rh"
  /\ \/ /\ read_all(2, "ok") /\ pc' = "check_ready"
        /\ client_ready' = TRUE
        /\ msgsDone' = Append(msgsDone, msgtype)
     \/ /\ read_all(2, "fail") /\ pc' = "cleanup"
        /\ UNCHANGED <<client_ready, msgsDone>>
  /\ UNCHANGED <<geomv, conn, copen, nclose, resv, locv, cause, envv, out,
                 tickStart, atPoll, frames, frameOk, lastSleep>>

CutTextPad == LoopRead("m6_pad3", 3, "m6_len", FALSE) /\ UNCHANGED client_ready

\* (variant: the text after the length field is left in the socket)
CutTextLen_noText ==
  /\ pc = "m6_len"
  /\ \/ /\ read_all(4, "ok")
        /\ len' = 0
        /\ pc' = "check_ready"
        /\ msgsDone' = Append(msgsDone, msgtype)
     \/ /\ read_all(4, "fail") /\ pc' = "cleanup"
        /\ UNCHANGED <<len, msgsDone>>
  /\ UNCHANGED <<geomv, conn, copen, nclose, resv, client_ready, msgtype, count,
                 i, y, cause, envv, out, tickStart, atPoll, frames, frameOk, lastSleep>>

CutTextLen ==
  /\ pc = "m6_len"
  /\ \/ /\ read_all(4, "ok")
        /\ len' = ntohl(Take(inq, 4))
        /\ pc' = IF ntohl(Take(inq, 4)) # 0 THEN "m6_text" ELSE "check_ready"
        /\ msgsDone' = IF ntohl(Take(inq, 4)) # 0 THEN msgsDone
                       ELSE Append(msgsDone, msgtype)
     \/ /\ read_all(4, "fail") /\ pc' = "cleanup"
        /\ UNCHANGED <<len, msgsDone>>
  /\ UNCHANGED <<geomv, conn, copen, nclose, resv, client_ready, msgtype, count,
                 i, y, cause, envv, out, tickStart, atPoll, frames, frameOk, lastSleep>>

ChunkLen(l) == IF l > CutChunk THEN CutChunk ELSE l

\* while (len) { n = min(len, 256); if (read_all(c, tmp, n)) { len = 0; break; } len -= n; }
CutTextChunk ==
  /\ pc = "m6_text" /\ len # 0
  /\ \/ /\ read_all(ChunkLen(len), "ok")
        /\ len' = len - ChunkLen(len)
        /\ pc' = IF len - ChunkLen(len) # 0 THEN "m6_text" ELSE "check_ready"
        /\ msgsDone' = IF len - ChunkLen(len) # 0 THEN msgsDone
                       ELSE Append(msgsDone, msgtype)
     \/ /\ read_all(ChunkLen(len), "fail")
        /\ len' = 0 /\ pc' = "check_ready"
        /\ UNCHANGED msgsDone
  /\ UNCHANGED <<geomv, conn, copen, nclose, resv, client_ready, msgtype, count,
                 i, y, cause, envv, out, tickStart, atPoll, frames, frameOk, lastSleep>>

\* ---------------------------------------------------------------------
\* frame pump
\* ---------------------------------------------------------------------
\* if (!client_ready) { msleep(50); continue; }
NotReady ==
  /\ pc = "check_ready" /\ ~client_ready
  /\ lastSleep' = <<"idle", msleep(NotReadyMs)>>
  /\ atPoll' = NoPoll
  /\ pc' = "select"
  /\ UNCHANGED <<geomv, conn, copen, nclose, resv, client_ready, locv, cause,
                 inq, envv, out, ioerr, msgsDone, tickStart, frames, frameOk>>

FrameWrite(at, seg, okpc) ==
  /\ pc = at
  /\ \E res \in IoResults :
       /\ write_all(seg, res) /\ LoopGoto(res, okpc)
       /\ frameOk' = ((at = "check_ready" \/ frameOk) /\ res = "ok")
  /\ UNCHANGED <<geomv, conn, copen, nclose, resv, client_ready, locv, cliv,
                 msgsDone, tickStart, lastSleep>>
  /\ atPoll' = NoPoll

\* (variant: the test of client_ready left out)
FrameHeader_unguarded ==
  /\ frames < MaxFrames
  /\ FrameWrite("check_ready", Lit(fbup), "rect_x0")
  /\ frames' = frames + 1

\* client_ready holds: write the 4-byte FramebufferUpdate header
FrameHeader ==
  /\ client_ready /\ frames < MaxFrames
  /\ FrameWrite("check_ready", Lit(fbup), "rect_x0")
  /\ frames' = frames + 1

RectX   == FrameWrite("rect_x0", Lit(htons(0)), "rect_y0") /\ UNCHANGED frames
RectY   == FrameWrite("rect_y0", Lit(htons(0)), "rect_ww") /\ UNCHANGED frames
RectW   == FrameWrite("rect_ww", Lit(htons(width)), "rect_hh") /\ UNCHANGED frames
RectH   == FrameWrite("rect_hh", Lit(htons(height)), "rect_enc") /\ UNCHANGED frames

\* the last header field, then for (int y = 0; ...
RectEnc ==
  /\ pc = "rect_enc"
  /\ \E res \in IoResults :
       /\ write_all(Lit(htonl(0)), res)
       /\ LoopGoto(res, IF 0 < height THEN "scan" ELSE "pace")
       /\ frameOk' = (frameOk /\ res = "ok")
       /\ y' = IF res = "ok" THEN 0 ELSE y
  /\ UNCHANGED <<geomv, conn, copen, nclose, resv, client_ready, msgtype, count,
                 i, len, cliv, msgsDone, tickStart, frames, lastSleep>>
  /\ atPoll' = NoPoll

\* (variant: a whole line_length of bytes is sent for each scanline)
Scanline_wholeStride ==
  /\ pc = "scan" /\ y < height
  /\ \E res \in IoResults :
       /\ write_all(Fb(y * stride, stride), res)
       /\ \/ /\ res = "ok" /\ y' = y + 1
             /\ pc' = IF y + 1 < height THEN "scan" ELSE "pace"
          \/ /\ res = "fail" /\ y' = height /\ pc' = "pace"
          \/ /\ res = "kill" /\ y' = y /\ pc' = "dead"
       /\ frameOk' = (frameOk /\ res = "ok")
  /\ UNCHANGED <<geomv, conn, copen, nclose, resv, client_ready, msgtype, count,
                 i, len, cliv, msgsDone, tickStart, frames, lastSleep>>
  /\ atPoll' = NoPoll

\* memcpy(linebuf, fbmem + y*stride, width*4); write_all(c, linebuf, width*4)
\* on failure: y = height; break;  (leaves the for loop only)
Scanline ==
  /\ pc = "scan" /\ y < height
  /\ \E res \in IoResults :
       /\ write_all(Fb(y * stride, width * BytesPerPix), res)
       /\ \/ /\ res = "ok" /\ y' = y + 1
             /\ pc' = IF y + 1 < height THEN "scan" ELSE "pace"
          \/ /\ res = "fail" /\ y' = height /\ pc' = "pace"
          \/ /\ res = "kill" /\ y' = y /\ pc' = "dead"
       /\ frameOk' = (frameOk /\ res = "ok")
  /\ UNCHANGED <<geomv, conn, copen, nclose, resv, client_ready, msgtype, count,
                 i, len, cliv, msgsDone, tickStart, frames, lastSleep>>
  /\ atPoll' = NoPoll

\* msleep(1000 / fps)
Pace ==
  /\ pc = "pace"
  /\ lastSleep' = <<"pace", msleep(1000 \div fps)>>
  /\ atPoll' = NoPoll
  /\ pc' = "select"
  /\ UNCHANGED <<geomv, conn, copen, nclose, resv, client_ready, locv, cause,
                 inq, envv, out, ioerr, msgsDone, tickStart, frames, frameOk>>

\* (variant: the scanline buffer is not released)
Cleanup_noFree ==
  /\ pc = "cleanup"
  /\ copen' = FALSE /\ nclose' = nclose + 1
  /\ pc' = "accept"
  /\ UNCHANGED <<geomv, conn, resv, client_ready, locv, cause, inq, envv, out,
                 ioerr, histv>>

\* free(linebuf); close(c);
Cleanup ==
  /\ pc = "cleanup"
  /\ linebuf' = "freed" /\ nfree' = nfree + 1
  /\ copen' = FALSE /\ nclose' = nclose + 1
  /\ pc' = "accept"
  /\ UNCHANGED <<geomv, conn, client_ready, locv, cause, inq, envv, out, ioerr,
                 histv>>

\* ---------------------------------------------------------------------
\* the client
\* ---------------------------------------------------------------------
ClientVersions == { ver, << 82, 70, 66, 32, 48, 48, 51, 46, 48, 48, 51, 10 >> }

ClientChunks ==
  { << 0 >> \o Zeros(3) \o << 16, 16, 0, 1, 0, 31, 0, 63, 0, 31, 11, 5, 0 >> \o Zeros(3),
    << 2, 0, 0, 2,  0, 0, 0, 5,  0, 0, 0, 0 >>,
    << 2, 0, 0, 2,  0, 0, 0, 5 >>,
    << 3, 1,  0, 0,  0, 0,  0, 1,  0, 1 >>,
    << 4, 1, 0, 0,  0, 0, 0, 97 >>,
    << 5, 1,  0, 1,  0, 1 >>,
    << 6, 0, 0, 0,  0, 0, 0, 3,  97, 98, 99 >>,
    << 6, 0, 0, 0,  0, 0, 0, 3,  97 >>,
    << 0, 0 >>,
    << 99 >> }

Connected == pc \notin {"accept", "dead"} /\ peer = "open"

\* bytes the read at a payload position is waiting for
Need == [ m0_rest |-> 19, m2_pad |-> 1, m2_count |-> 2, m2_enc |-> 4,
          m3_inc |-> 1, m3_rx |-> 2, m3_ry |-> 2, m3_rw |-> 2, m3_rh |-> 2,
          m4_rest |-> 7, m5_rest |-> 5, m6_pad3 |-> 3, m6_len |-> 4,
          m6_text |-> ChunkLen(len) ]

\* the moments at which newly arrived bytes make a difference to the server:
\* a handshake read, the poll, or a payload read still short of bytes
HsReadPcs == { "ver_recv", "sec_choice", "client_init" }
Awaited   == \/ pc = "select"
             \/ pc \in DOMAIN Need /\ Len(inq) < Need[pc]

ClientSend(phase, chunk, next) ==
  /\ Connected /\ cphase = phase
  /\ IF phase = "msgs" THEN Awaited ELSE pc \in HsReadPcs
  /\ inq' = inq \o chunk /\ cphase' = next
  /\ UNCHANGED <<geomv, pc, conn, copen, nclose, resv, client_ready, locv, cause,
                 peer, out, ioerr, histv>>

ClientVersion    == \E v \in ClientVersions : ClientSend("ver", v, "sec") /\ UNCHANGED csent
ClientSecurity   == \E b \in {1, 2} : ClientSend("sec", <<b>>, "init") /\ UNCHANGED csent
ClientSharedFlag == \E b \in {0, 1} : ClientSend("init", <<b>>, "msgs") /\ UNCHANGED csent
ClientMessage ==
  /\ csent < MaxMsgs
  /\ \E m \in ClientChunks : ClientSend("msgs", m, "msgs")
  /\ csent' = csent + 1

\* a viewer that only asks for updates (a whole request, or one cut short)
RequestChunks == { << 3, 0,  0, 0,  0, 0,  0, 2,  0, 2 >>, << 3, 1,  0, 0,  0 >> }

ClientRequest ==
  /\ csent < MaxMsgs
  /\ \E m \in RequestChunks : ClientSend("msgs", m, "msgs")
  /\ csent' = csent + 1

\* the client closes its end: pending bytes stay readable, then end-of-stream
ClientClose ==
  /\ Connected
  /\ peer' = "closed"
  /\ UNCHANGED <<geomv, pc, conn, copen, nclose, resv, client_ready, locv, cause,
                 inq, cphase, csent, out, ioerr, histv>>

Next ==
  \/ Accept \/ AcceptDie
  \/ VersionSend \/ VersionRecv \/ SecurityOffer \/ SecurityChoice
  \/ SecurityResult \/ ClientInit
  \/ ServerInitW \/ ServerInitH \/ ServerInitPf \/ ServerInitLen \/ ServerInitName
  \/ AllocLinebuf
  \/ Select \/ ReadType
  \/ SetPixelFormat \/ SetEncodingsPad \/ SetEncodingsCount \/ SetEncodingsEnc
  \/ UpdateRequestInc \/ UpdateRequestX \/ UpdateRequestY \/ UpdateRequestW
  \/ UpdateRequestH
  \/ KeyEvent \/ PointerEvent \/ CutTextPad \/ CutTextLen \/ CutTextChunk
  \/ NotReady \/ FrameHeader \/ RectX \/ RectY \/ RectW \/ RectH \/ RectEnc
  \/ Scanline \/ Pace \/ Cleanup
  \/ ClientVersion \/ ClientSecurity \/ ClientSharedFlag \/ ClientMessage
  \/ ClientClose

Spec == Init /\ [][Next]_vars

\* the same server in front of a viewer that only requests updates, over
\* every geometry and --fps value
NextPump ==
  \/ Accept
  \/ VersionSend \/ VersionRecv \/ SecurityOffer \/ SecurityChoice
  \/ SecurityResult \/ ClientInit
  \/ ServerInitW \/ ServerInitH \/ ServerInitPf \/ ServerInitLen \/ ServerInitName
  \/ AllocLinebuf
  \/ Select \/ ReadType
  \/ UpdateRequestInc \/ UpdateRequestX \/ UpdateRequestY \/ UpdateRequestW
  \/ UpdateRequestH
  \/ NotReady \/ FrameHeader \/ RectX \/ RectY \/ RectW \/ RectH \/ RectEnc
  \/ Scanline \/ Pace \/ Cleanup
  \/ ClientVersion \/ ClientSecurity \/ ClientSharedFlag \/ ClientRequest
  \/ ClientClose

SpecPump == InitPump /\ [][NextPump]_vars

\* the same server and viewer on sources whose xres does not fit 16 bits
\* (xres, yres, line_length), next to an ordinary one
WideGeometries == { << 65536, 1, 262144 >>, << 65537, 2, 262160 >>, << 2, 2, 12 >> }

InitWide == \E g \in WideGeometries : Started(g, 3)

SpecWide == InitWide /\ [][NextPump]_vars

\* the same server in front of a viewer that sends whole, well-formed
\* messages only: SetEncodings with n encodings, ClientCutText with l bytes
EncCounts == {0, 3}
CutLens   == {0, 3, 256, 257}
SetEncodingsMsg(n) ==
  << 2, 0, n \div 256, n % 256 >> \o [k \in 1..(4 * n) |-> IF k % 4 = 0 THEN 5 ELSE 0]
CutTextMsg(l) ==
  << 6, 0, 0, 0,  0, 0, l \div 256, l % 256 >> \o [k \in 1..l |-> 97 + (k % 26)]
ValidMessages ==
  { << 0 >> \o Zeros(3) \o << 16, 16, 0, 1, 0, 31, 0, 63, 0, 31, 11, 5, 0 >> \o Zeros(3),
    << 3, 1,  0, 0,  0, 0,  0, 1,  0, 1 >>,
    << 4, 1, 0, 0,  0, 0, 0, 97 >>,
    << 5, 1,  0, 1,  0, 1 >> }
  \cup { SetEncodingsMsg(n) : n \in EncCounts }
  \cup { CutTextMsg(l) : l \in CutLens }

ClientValid ==
  /\ csent < MaxMsgs
  /\ \E m \in ValidMessages : ClientSend("msgs", m, "msgs")
  /\ csent' = csent + 1

NextMsgs ==
  \/ Accept
  \/ VersionSend \/ VersionRecv \/ SecurityOffer \/ SecurityChoice
  \/ SecurityResult \/ ClientInit
  \/ ServerInitW \/ ServerInitH \/ ServerInitPf \/ ServerInitLen \/ ServerInitName
  \/ AllocLinebuf
  \/ Select \/ ReadType
  \/ SetPixelFormat \/ SetEncodingsPad \/ SetEncodingsCount \/ SetEncodingsEnc
  \/ UpdateRequestInc \/ UpdateRequestX \/ UpdateRequestY \/ UpdateRequestW
  \/ UpdateRequestH
  \/ KeyEvent \/ PointerEvent \/ CutTextPad \/ CutTextLen \/ CutTextChunk
  \/ NotReady \/ FrameHeader \/ RectX \/ RectY \/ RectW \/ RectH \/ RectEnc
  \/ Scanline \/ Pace \/ Cleanup
  \/ ClientVersion \/ ClientSecurity \/ ClientSharedFlag \/ ClientValid
  \/ ClientClose

SpecMsgs == Init /\ [][NextMsgs]_vars

\* =====================================================================
\* Properties
\* =====================================================================
\* positions of the session loop (after the scanline buffer was allocated)
LoopPcs == { "select", "read_type", "m0_rest", "m2_pad", "m2_count", "m2_enc",
             "m3_inc", "m3_rx", "m3_ry", "m3_rw", "m3_rh", "m4_rest", "m5_rest",
             "m6_pad3", "m6_len", "m6_text", "check_ready", "rect_x0", "rect_y0",
             "rect_ww", "rect_hh", "rect_enc", "scan", "pace", "cleanup" }

Be16(v) == << v \div 256, v % 256 >>

\* what RFB 3.8 prescribes before the first update, for a w x h screen
ExpectedGreeting(w, h) ==
  << 82, 70, 66, 32, 48, 48, 51, 46, 48, 48, 56, 10 >>       \* "RFB 003.008\n"
  \o << 1, 1 >>                                                \* one type: None
  \o << 0, 0, 0, 0 >>                                          \* SecurityResult OK
  \o Be16(w) \o Be16(h)
  \o << 32, 24, 0, 1, 0, 255, 0, 255, 0, 255, 16, 8, 0, 0, 0, 0 >>
  \o << 0, 0, 0, 22 >>
  \o << 79, 112, 101, 110, 67, 101, 110, 116, 97, 117, 114, 105, 32,
        102, 98, 48, 32, 40, 82, 65, 87, 41 >>                 \* 22 bytes
GreetingLen == 12 + 2 + 4 + (2 + 2 + 16 + 4 + 22)

\* one full-screen RAW FramebufferUpdate of the current framebuffer
ExpectedPixels ==
  [k \in 1..(height * width * 4) |->
     fbmem(((k - 1) \div (width * 4)) * stride + ((k - 1) % (width * 4)))]
ExpectedFrame ==
  << 0, 0, 0, 1 >> \o << 0, 0, 0, 0 >> \o Be16(width) \o Be16(height)
  \o << 0, 0, 0, 0 >> \o ExpectedPixels

\* what the server has written since the current iteration's poll
TickSegs  == SubSeq(out, tickStart + 1, Len(out))
TickBytes == Flatten(TickSegs)

NoRequestYet == \A k \in 1..Len(msgsDone) : msgsDone[k] # 3

\* C1: once the handshake has completed, the bytes written before the first
\* FramebufferUpdate are exactly version, security offer [1,1], security
\* result 0, width, height, pixel format, name length and name; they depend
\* on the geometry through the width/height fields only, not on the rate.
C1_HandshakeBytes ==
  pc \in LoopPcs \cup {"malloc"} =>
    /\ Len(out) >= 8
    /\ Flatten(Take(out, 8)) = ExpectedGreeting(width, height)
    /\ Len(ExpectedGreeting(width, height)) = GreetingLen
    /\ frames = 0 => Flatten(out) = ExpectedGreeting(width, height)

C1_Witness ==
  pc = "check_ready" /\ client_ready /\ frames = 0 /\ Len(out) = 8
  /\ width = 2 /\ height = 1 /\ reqfps = 16

\* C2: while no FramebufferUpdateRequest has been completely read, the server
\* has written nothing beyond the handshake, however many iterations ran and
\* whatever other messages were processed.
C2_NoUpdateBeforeRequest ==
  NoRequestYet => (frames = 0 /\ Len(Flatten(out)) <= GreetingLen)

C2_Witness ==
  /\ NoRequestYet /\ Len(msgsDone) = 2 /\ msgsDone[1] # msgsDone[2]
  /\ pc = "select" /\ lastSleep[1] = "idle"
  /\ Len(Flatten(out)) = GreetingLen

\* C3 (as claimed): every iteration of a ready session that reaches the frame
\* pacing sleep has written exactly one complete FramebufferUpdate.
C3_OneUpdatePerTick ==
  pc = "pace" => TickBytes = ExpectedFrame

\* C4: once a type byte outside {0,2,3,4,5,6} has been read, the session is
\* on its way out (cleanup, then closed) and nothing more is written to the
\* client, ready or not.
C4_UnknownTypeAborts ==
  [][ msgtype' \notin {0, 2, 3, 4, 5, 6} =>
        /\ copen' => pc' = "cleanup"
        /\ out' = out ]_vars

C4_Witness ==
  pc = "cleanup" /\ msgtype = 99 /\ client_ready /\ frames >= 1

\* C5 (as claimed): after a failed payload read the session writes nothing
\* more and runs no sleep.
C5_ShortReadAborts ==
  [][ (ioerr = "read" /\ conn' = conn) =>
        /\ out' = out
        /\ ~(pc \in {"check_ready", "pace"} /\ pc' = "select") ]_vars

\* C6 (as claimed): after a failed write the server writes nothing more on
\* the same connection.
C6_WriteFailureAborts ==
  [][ (ioerr = "write" /\ conn' = conn) => out' = out ]_vars

\* C7: a FramebufferUpdate sent without failure is the 4-byte header, the
\* 12-byte rectangle header and height scanlines of width*4 bytes, scanline y
\* taken from offset y*stride; bytes between width*4 and stride of a line are
\* never sent.
C7_FrameLayout ==
  /\ (pc = "pace" /\ frameOk) =>
       /\ TickBytes = ExpectedFrame
       /\ Len(TickBytes) = 4 + 12 + height * width * 4
       /\ Len(TickSegs) = 6 + height
       /\ \A r \in 0..(height - 1) :
            TickSegs[7 + r] = [kind |-> "fb", off |-> r * stride,
                               len |-> width * 4, data |-> << >>]
  /\ \A k \in 1..Len(out) :
       out[k].kind = "fb" =>
         \A o \in out[k].off..(out[k].off + out[k].len - 1) :
           o % stride < width * 4

C7_Witness ==
  pc = "pace" /\ frameOk /\ frames = 2 /\ stride > width * 4 /\ height = 2
  /\ width = 2

\* C8: client_ready is false when the session loop is entered, turns true
\* only when the last field of a FramebufferUpdateRequest has been read, and
\* never turns false again in the same session.
C8_ReadyMonotone ==
  [][ /\ (pc = "malloc" /\ pc' = "select") => ~client_ready'
      /\ (pc \in LoopPcs /\ client_ready) => client_ready'
      /\ (pc \in LoopPcs /\ ~client_ready /\ client_ready') =>
           /\ msgtype = 3 /\ pc = "m3_rh"
           /\ msgsDone' = Append(msgsDone, 3) ]_vars

C8_Witness ==
  /\ client_ready /\ pc = "pace" /\ frames = 2
  /\ Len(msgsDone) = 2 /\ msgsDone[1] = 3 /\ msgsDone[2] = 0

\* C9 (as claimed): no failure on the client's channel ends the process.
C9_ProcessSurvives ==
  ~(pc = "dead" /\ cause = "sigpipe")

\* C10: the effective rate is min(15, max(1, requested)) and the pause after
\* a frame is 1000 div rate, between 66 and 1000 ms.
C10_FrameRate ==
  LET lo  == IF reqfps > 1 THEN reqfps ELSE 1
      eff == IF lo < 15 THEN lo ELSE 15
  IN  /\ fps = eff
      /\ reqfps <= 0 => fps = 1
      /\ reqfps > 15 => fps = 15
      /\ lastSleep[1] = "pace" =>
           /\ lastSleep[2] = 1000 \div eff
           /\ lastSleep[2] >= 66 /\ lastSleep[2] <= 1000
      /\ lastSleep[1] = "idle" => lastSleep[2] = 50

C10_Witness ==
  reqfps < 0 /\ lastSleep = <<"pace", 1000>> /\ frames = 2

\* positions of the handshake, in program order
HsPcs == { "ver_send", "ver_recv", "sec_offer", "sec_choice", "sec_result",
           "client_init", "si_w", "si_h", "si_pf", "si_namelen", "si_name",
           "malloc" }
HsOrder == << "ver_send", "ver_recv", "sec_offer", "sec_choice", "sec_result",
              "client_init", "si_w", "si_h", "si_pf", "si_namelen", "si_name",
              "malloc" >>
HsIdx(p) == CHOOSE k \in 1..Len(HsOrder) : HsOrder[k] = p
\* bytes of the greeting the server has written when it stands at step k
HsWritten == << 0, 12, 12, 14, 14, 18, 18, 20, 22, 38, 42, 64 >>

\* C11: the server holds at most one client connection: whenever it stands at
\* accept no client socket is open, and a connection is accepted only from
\* there, after the previous one was closed.
C11_OneConnection ==
  [][ /\ pc' = "accept" => ~copen'
      /\ conn' # conn =>
           /\ pc = "accept" /\ ~copen /\ conn' = conn + 1 /\ copen'
           /\ conn >= 1 => nclose = 1 ]_vars

C11_Witness ==
  conn = 2 /\ copen /\ pc = "select" /\ nclose = 0

\* C12: a security choice other than 1 ends the session silently: the byte
\* is consumed, nothing is written after the 2-byte offer, nothing more is
\* read and the connection is closed.
C12_RejectedChoice ==
  [][ (pc = "sec_choice" /\ pc' # "sec_choice" /\ inq # << >> /\ Head(inq) # 1) =>
        /\ pc' = "accept" /\ ~copen' /\ nclose' = 1
        /\ out' = out
        /\ Flatten(out) = << 82, 70, 66, 32, 48, 48, 51, 46, 48, 48, 56, 10, 1, 1 >>
        /\ inq' = Tail(inq) ]_vars

C12_Witness ==
  pc = "accept" /\ conn = 1 /\ ~copen /\ ioerr = "none" /\ Len(out) = 2
  /\ cphase \in {"init", "msgs"}

C19_ReleasedOnce ==
  /\ (pc = "accept" /\ conn >= 1) =>
       /\ ~copen /\ nclose = 1
       /\ \/ linebuf = "none" /\ nfree = 0
          \/ linebuf = "freed" /\ nfree = 1
  /\ pc \in HsPcs => (copen /\ nclose = 0 /\ linebuf = "none" /\ nfree = 0)
  /\ pc \in LoopPcs => (copen /\ nclose = 0 /\ linebuf = "alloc" /\ nfree = 0)

C19_Witness ==
  pc = "accept" /\ conn = 2 /\ linebuf = "freed" /\ nfree = 1 /\ nclose = 1
  /\ ioerr = "proto"

\* positions inside the payload of the messages the server discards
IgnoredPcs == { "m0_rest", "m2_pad", "m2_count", "m2_enc", "m4_rest", "m5_rest",
                "m6_pad3", "m6_len", "m6_text" }
IgnoredTypes == {0, 2, 4, 5, 6}

\* C17: while a SetPixelFormat, SetEncodings, KeyEvent, PointerEvent or
\* ClientCutText is processed only input bytes are consumed: client_ready,
\* the geometry, the rate and the output keep their values; and a
\* FramebufferUpdate sent after such a message is still the full-screen RAW
\* rectangle of 4-byte pixels.
C17_IgnoredMessages ==
  [][ /\ pc \in IgnoredPcs =>
           /\ client_ready' = client_ready
           /\ out' = out /\ frames' = frames
           /\ <<width', height', stride', fps'>> = <<width, height, stride, fps>>
           /\ linebuf' = linebuf /\ copen' = copen
           /\ Len(inq') <= Len(inq) =>
                \/ inq' = << >>
                \/ inq' = Drop(inq, Len(inq) - Len(inq'))
      /\ (pc \in IgnoredPcs /\ msgsDone' # msgsDone) =>
           /\ msgsDone' = Append(msgsDone, msgtype) /\ msgtype \in IgnoredTypes
           /\ pc' = "check_ready"
      /\ (/\ pc = "pace" /\ frameOk
          /\ \E k \in 1..Len(msgsDone) : msgsDone[k] \in IgnoredTypes) =>
           /\ TickBytes = ExpectedFrame
           /\ SubSeq(TickBytes, 13, 16) = << 0, 0, 0, 0 >>
           /\ SubSeq(TickBytes, 5, 12) = << 0, 0, 0, 0 >> \o Be16(width) \o Be16(height)
           /\ Len(TickBytes) = 16 + width * height * 4 ]_vars

C17_Witness ==
  pc = "pace" /\ frameOk /\ frames = 1 /\ client_ready /\ msgsDone = << 2, 3 >>
  /\ count = 2

\* C14 (as claimed): a ready session whose client is connected and whose
\* reads and writes have not failed is never held in a payload read: the
\* bytes that read waits for are there.
C14_PumpNeverBlocks ==
  (client_ready /\ peer = "open" /\ ioerr = "none" /\ pc \in DOMAIN Need) =>
    Len(inq) >= Need[pc]

\* C20 (as claimed): when the peer has closed with every message it sent
\* completely processed, the server does not stop short of accept.
C20_ClosedPeerReturns ==
  (peer # "open" /\ linebuf = "alloc" /\ Len(msgsDone) = csent /\ inq = << >>) =>
    pc # "dead"

\* positions between the poll and the test of client_ready
MsgPcs  == IgnoredPcs \cup { "m3_inc", "m3_rx", "m3_ry", "m3_rw", "m3_rh" }
TickPcs == MsgPcs \cup { "read_type", "check_ready" }

\* C16: an iteration of the session loop polls once and completes at most
\* one client message before it goes on to the frame or the sleep, so at
\* most one message is consumed between two consecutive FramebufferUpdates,
\* whatever is still pending in the socket.
C16_OneMessagePerTick ==
  [][ /\ pc' \in TickPcs =>
           /\ atPoll'.polls = 1
           /\ Len(msgsDone') - atPoll'.done \in {0, 1}
      /\ (msgsDone' # msgsDone /\ conn' = conn) =>
           /\ pc \in MsgPcs /\ pc' = "check_ready"
           /\ Len(msgsDone') = Len(msgsDone) + 1
      /\ (pc' = "read_type" /\ pc # "read_type") => pc = "select"
      /\ (frames' # frames /\ conn' = conn) =>
           /\ frames' = frames + 1 /\ pc = "check_ready"
           /\ atPoll.polls = 1
           /\ Len(msgsDone) - atPoll.done \in {0, 1} ]_vars

C16_Witness ==
  /\ pc = "rect_x0" /\ client_ready /\ frames = 1
  /\ msgsDone = << 3 >> /\ inq = << 4, 1, 0, 0,  0, 0, 0, 97 >>

\* C18: nothing of an earlier session is visible in a later one: during the
\* handshake no message has been processed, no frame sent and no buffer
\* allocated, and from the entry of the session loop until this connection's
\* own FramebufferUpdateRequest has been read client_ready is false and the
\* output is the handshake alone.
C18_FreshSession ==
  /\ pc \in HsPcs =>
       /\ msgsDone = << >> /\ frames = 0 /\ linebuf = "none" /\ atPoll = NoPoll
       /\ Flatten(out) = SubSeq(ExpectedGreeting(width, height), 1,
                                HsWritten[HsIdx(pc)])
  /\ (pc \in LoopPcs /\ NoRequestYet) =>
       /\ ~client_ready /\ frames = 0
       /\ Flatten(out) = ExpectedGreeting(width, height)

C18_Witness ==
  /\ conn = 2 /\ pc = "check_ready" /\ lastSleep[1] = "pace"
  /\ ~client_ready /\ msgsDone = << 4 >> /\ frames = 0

\* the length RFB 3.8 gives a client message that starts the byte sequence m
MsgLen(m) ==
  CASE m[1] = 0 -> 20
    [] m[1] = 2 -> 4 + 4 * (m[3] * 256 + m[4])
    [] m[1] = 3 -> 10
    [] m[1] = 4 -> 8
    [] m[1] = 5 -> 6
    [] m[1] = 6 -> 8 + (((m[5] * 256 + m[6]) * 256 + m[7]) * 256 + m[8])

\* C15: when the client sends whole valid messages, the step that completes
\* a message has consumed, since the poll, exactly the bytes of the first
\* pending message (20, 4 + 4*count, 10, 8, 6 or 8 + length) and nothing of
\* the next; no payload read fails or finds the socket empty while the peer
\* is connected; the ClientCutText loop
\* takes at most 256 bytes a round, strictly shortens what is left and ends
\* exactly when nothing is left.
C15_ExactConsumption ==
  [][ /\ (msgsDone' # msgsDone /\ conn' = conn) =>
           /\ atPoll.inq # << >>
           /\ msgsDone' = Append(msgsDone, atPoll.inq[1])
           /\ Len(atPoll.inq) >= MsgLen(atPoll.inq)
           /\ inq' = SubSeq(atPoll.inq, MsgLen(atPoll.inq) + 1, Len(atPoll.inq))
      /\ (pc \in MsgPcs /\ pc' # pc /\ peer = "open") =>
           pc' \in MsgPcs \cup {"check_ready"}
      /\ (pc' \in MsgPcs /\ peer' = "open") => inq' # << >>
      /\ (pc = "m6_text" /\ inq' # inq /\ peer' = peer) =>
           /\ Len(inq) - Len(inq') <= 256
           /\ Len(inq) - Len(inq') = (IF len < 256 THEN len ELSE 256)
           /\ len' = len - (Len(inq) - Len(inq')) /\ len' >= 0
           /\ (len' = 0) = (pc' = "check_ready")
           /\ (len' # 0) = (pc' = "m6_text") ]_vars

C15_Witness ==
  /\ pc = "check_ready" /\ msgtype = 6 /\ msgsDone = << 6 >>
  /\ Len(atPoll.inq) = 8 + 257 + 20
  /\ Len(inq) = 20 /\ inq[1] = 0

\* number of bytes in a run of completed writes
RECURSIVE SegLen(_)
SegLen(segs) == IF segs = << >> THEN 0
                ELSE Head(segs).len + SegLen(Tail(segs))

\* C21 (as claimed): the 16-bit width and height written in ServerInit and
\* in the rectangle header of a frame sent without failure are the width and
\* height of the source, and the pixel bytes after the rectangle header are
\* 4 * (advertised width) * (advertised height).
C21_AdvertisedDimensions ==
  /\ pc \in LoopPcs =>
       /\ ntohs(out[4].data) = width
       /\ ntohs(out[5].data) = height
  /\ (pc = "pace" /\ frameOk) =>
       LET advW == ntohs(TickSegs[4].data)
           advH == ntohs(TickSegs[5].data)
       IN  /\ advW = width /\ advH = height
           /\ SegLen(SubSeq(TickSegs, 7, Len(TickSegs))) = 4 * advW * advH

====
